---- MODULE Spec2Model ----
(***************************************************************************)
(* Model of the Tescrow escrow contract (src/Tescrow-Contract.py).         *)
(*                                                                         *)
(* The contract storage (owner, slashing_rate, exchange_types, exchanges)  *)
(* is the state; every entry point is one action that runs the whole       *)
(* handler: its sp.verify checks in source order, then its storage writes  *)
(* and the transfers it emits.  A failed sp.verify aborts the call: the    *)
(* host rolls the storage and the balance back and no transfer is issued.  *)
(*                                                                         *)
(* Besides the storage the model keeps the contract balance (held by the   *)
(* host), the last call with its outcome (last), and per exchange id the   *)
(* transfers issued so far (payouts) and what held when it was created     *)
(* (created: the owner, the two rates and the record as inserted).         *)
(* Amounts are mutez far below the 63-bit capacity of sp.TMutez, so no     *)
(* addition or multiplication of the model overflows.  As in the test      *)
(* scenario, only addNewExchange is called with an amount attached.        *)
(***************************************************************************)
EXTENDS Integers, Sequences, FiniteSets

VARIABLES owner, slashing_rate, exchange_types, exchanges,
          balance, last, payouts, created

storage == <<owner, slashing_rate, exchange_types, exchanges>>
vars == <<owner, slashing_rate, exchange_types, exchanges,
          balance, last, payouts, created>>

(***************************************************************************)
(* Bounds of the model and the inputs the calls are drawn from.            *)
(***************************************************************************)
MaxPrice == 50
MaxShipping == 1
MaxOver == 1
MaxTime == 1
MaxPayouts == 6

Address == {"Owner", "Keerthiz", "Cryptovet"}
Ids == {"3"}
EscrowTypes == {"TEST"}
Commissions == {3, 5}
Sellers == {"Keerthiz"}
Prices == {MaxPrice}
Shippings == {MaxShipping}
Amounts == {MaxPrice + MaxShipping + k : k \in 2 .. (MaxOver + 3)}
Times == 1 .. MaxTime
DomainNames == {"to be add"}

(***************************************************************************)
(* Failure kinds: the sp.verify of the source that raises each.            *)
(***************************************************************************)
Ok == "ok"
Unauthorized == "Unauthorized"
UnknownExchangeType == "UnknownExchangeType"
InsufficientFunds == "InsufficientFunds"
DuplicateExchangeId == "DuplicateExchangeId"
NotFound == "NotFound"
InvalidStateTransition == "InvalidStateTransition"
GetItemFailure == "GetItemFailure"
BalanceTooLow == "BalanceTooLow"

(***************************************************************************)
(* Storage set by the constructor.                                         *)
(***************************************************************************)
exchange_states ==
    <<"WAITING_FOR_TRANSFER", "WAITING_FOR_VALIDATION", "VALIDATED", "CANCELLED">>

InitialExchangeTypes ==
    [t \in {"DOMAIN_NAME", "OBJECT", "OTHER"} |->
        CASE t = "DOMAIN_NAME" -> 5
          [] t = "OBJECT" -> 3
          [] t = "OTHER" -> 2]

TestSlashingRate == 5

NoCall ==
    [op |-> "origination", sender |-> "Owner", amount |-> 0, id |-> "",
     params |-> <<>>, result |-> Ok, operations |-> <<>>]

Init ==
    /\ owner = "Owner"
    /\ slashing_rate = TestSlashingRate
    /\ exchange_types = InitialExchangeTypes
    /\ exchanges = <<>>
    /\ balance = 0
    /\ last = NoCall
    /\ payouts = <<>>
    /\ created = <<>>

(***************************************************************************)
(* Helpers of the contract.                                                *)
(***************************************************************************)
\* mutant: the caller is compared with the owner the constructor was given
is_owner_Constructor(sender) == sender = "Owner"

is_owner(sender) == owner = sender

\* mutant: the share rounded up instead of down
calculate_percentage_RoundUp(amount, percentage) ==
    (amount * percentage + 99) \div 100

\* sp.split_tokens(amount, percentage, 100): amount * percentage / 100, floored
calculate_percentage(amount, percentage) == (amount * percentage) \div 100

\* mutant: writing one key of a map drops the other keys
MapSet_DropOthers(m, k, v) == [x \in {k} |-> v]

MapSet(m, k, v) == [x \in (DOMAIN m) \cup {k} |-> IF x = k THEN v ELSE m[x]]

Transfer(to, amount) == [to |-> to, amount |-> amount]

RECURSIVE SumAmounts(_)
SumAmounts(ops) ==
    IF ops = <<>> THEN 0 ELSE Head(ops).amount + SumAmounts(Tail(ops))

Call(op, sender, amount, id, params) ==
    [op |-> op, sender |-> sender, amount |-> amount, id |-> id,
     params |-> params, result |-> Ok, operations |-> <<>>]

\* mutant: a failed call keeps the amount attached to it
Fail_KeepsAmount(call, error) ==
    /\ last' = [call EXCEPT !.result = error]
    /\ balance' = balance + call.amount
    /\ UNCHANGED <<owner, slashing_rate, exchange_types, exchanges,
                   payouts, created>>

\* a failed sp.verify: the whole call is rolled back, nothing is emitted
Fail(call, error) ==
    /\ last' = [call EXCEPT !.result = error]
    /\ UNCHANGED <<owner, slashing_rate, exchange_types, exchanges,
                   balance, payouts, created>>

(***************************************************************************)
(* updateExchangeType (lines 49-55)                                        *)
(***************************************************************************)
updateExchangeTypeError(sender) ==
    IF ~is_owner(sender) THEN Unauthorized ELSE Ok

updateExchangeType(sender, escrow_type, commission) ==
    LET call == Call("updateExchangeType", sender, 0, "",
                     [escrow_type |-> escrow_type, commission |-> commission])
        error == updateExchangeTypeError(sender)
    IN  IF error # Ok
        THEN Fail(call, error)
        ELSE /\ exchange_types' = MapSet(exchange_types, escrow_type, commission)
             /\ last' = call
             /\ UNCHANGED <<owner, slashing_rate, exchanges, balance,
                            payouts, created>>

(***************************************************************************)
(* changeOwner (lines 58-62)                                               *)
(***************************************************************************)
changeOwnerError(sender) ==
    IF ~is_owner(sender) THEN Unauthorized ELSE Ok

changeOwner(sender, new_owner) ==
    LET call == Call("changeOwner", sender, 0, "", [new_owner |-> new_owner])
        error == changeOwnerError(sender)
    IN  IF error # Ok
        THEN Fail(call, error)
        ELSE /\ owner' = new_owner
             /\ last' = call
             /\ UNCHANGED <<slashing_rate, exchange_types, exchanges, balance,
                            payouts, created>>

(***************************************************************************)
(* addNewExchange (lines 79-110)                                           *)
(***************************************************************************)
\* mutant: the id is checked first, before the type and the amount
addNewExchangeError_IdFirst(amount, id, exchange_type, price, shipping) ==
    IF id \in DOMAIN exchanges THEN DuplicateExchangeId
    ELSE IF exchange_type \notin DOMAIN exchange_types THEN UnknownExchangeType
    ELSE LET commission ==
                 calculate_percentage(price, exchange_types[exchange_type])
             slashing == calculate_percentage(price, slashing_rate)
         IN  IF ~(amount >= price + commission + slashing + shipping)
             THEN InsufficientFunds
             ELSE Ok

\* mutant: an id already in the store is not refused
addNewExchangeError_NoDuplicateCheck(amount, id, exchange_type, price, shipping) ==
    IF exchange_type \notin DOMAIN exchange_types THEN UnknownExchangeType
    ELSE LET commission ==
                 calculate_percentage(price, exchange_types[exchange_type])
             slashing == calculate_percentage(price, slashing_rate)
         IN  IF ~(amount >= price + commission + slashing + shipping)
             THEN InsufficientFunds
             ELSE Ok

addNewExchangeError(amount, id, exchange_type, price, shipping) ==
    IF exchange_type \notin DOMAIN exchange_types THEN UnknownExchangeType
    ELSE LET commission ==
                 calculate_percentage(price, exchange_types[exchange_type])
             slashing == calculate_percentage(price, slashing_rate)
         IN  IF ~(amount >= price + commission + slashing + shipping)
             THEN InsufficientFunds
             ELSE IF id \in DOMAIN exchanges THEN DuplicateExchangeId
             ELSE Ok

new_exchange(sender, amount, now, seller, exchange_type, price, shipping, domain_name) ==
    [buyer |-> sender,
     seller |-> seller,
     state |-> exchange_states[1],
     exchange_type |-> exchange_type,
     lastUpdate |-> now,
     total_escrow |->
        [escrow |-> amount,
         slashing |-> calculate_percentage(price, slashing_rate),
         commission |->
            calculate_percentage(price, exchange_types[exchange_type]),
         shipping |-> shipping,
         asked_price |-> price],
     domain_name |-> domain_name]

\* mutant: a caller who is the buyer of an exchange not yet VALIDATED is
\* refused, as the comment on line 73 has it
addNewExchange_OnePerBuyer(sender, amount, now, id, seller, exchange_type, price, shipping, domain_name) ==
    LET call == Call("addNewExchange", sender, amount, id,
                     [seller |-> seller, exchange_type |-> exchange_type,
                      price |-> price, shipping |-> shipping,
                      domain_name |-> domain_name])
        error ==
            IF \E i \in DOMAIN exchanges :
                  /\ exchanges[i].buyer = sender
                  /\ exchanges[i].state # exchange_states[3]
            THEN DuplicateExchangeId
            ELSE addNewExchangeError(amount, id, exchange_type, price, shipping)
    IN  IF error # Ok
        THEN Fail(call, error)
        ELSE /\ exchanges' =
                    MapSet(exchanges, id,
                           new_exchange(sender, amount, now, seller,
                                        exchange_type, price, shipping,
                                        domain_name))
             /\ balance' = balance + amount
             /\ payouts' = MapSet(payouts, id, <<>>)
             /\ created' =
                    MapSet(created, id,
                           [owner |-> owner,
                            commission_rate |-> exchange_types[exchange_type],
                            slashing_rate |-> slashing_rate,
                            exchange |->
                                new_exchange(sender, amount, now, seller,
                                             exchange_type, price, shipping,
                                             domain_name)])
             /\ last' = call
             /\ UNCHANGED <<owner, slashing_rate, exchange_types>>

addNewExchange(sender, amount, now, id, seller, exchange_type, price, shipping, domain_name) ==
    LET call == Call("addNewExchange", sender, amount, id,
                     [seller |-> seller, exchange_type |-> exchange_type,
                      price |-> price, shipping |-> shipping,
                      domain_name |-> domain_name])
        error == addNewExchangeError(amount, id, exchange_type, price, shipping)
    IN  IF error # Ok
        THEN Fail(call, error)
        ELSE /\ exchanges' =
                    MapSet(exchanges, id,
                           new_exchange(sender, amount, now, seller,
                                        exchange_type, price, shipping,
                                        domain_name))
             /\ balance' = balance + amount
             /\ payouts' = MapSet(payouts, id, <<>>)
             /\ created' =
                    MapSet(created, id,
                           [owner |-> owner,
                            commission_rate |-> exchange_types[exchange_type],
                            slashing_rate |-> slashing_rate,
                            exchange |->
                                new_exchange(sender, amount, now, seller,
                                             exchange_type, price, shipping,
                                             domain_name)])
             /\ last' = call
             /\ UNCHANGED <<owner, slashing_rate, exchange_types>>

(***************************************************************************)
(* validateSellerTransmission (lines 114-121)                              *)
(***************************************************************************)
\* mutant: the caller is not compared with the owner
validateSellerTransmissionError_NoOwnerCheck(sender, id) ==
    IF id \notin DOMAIN exchanges THEN NotFound
    ELSE IF exchanges[id].state # exchange_states[1] THEN InvalidStateTransition
    ELSE Ok

\* mutant: the state of the record is not checked
validateSellerTransmissionError_NoStateCheck(sender, id) ==
    IF ~is_owner(sender) THEN Unauthorized
    ELSE IF id \notin DOMAIN exchanges THEN NotFound
    ELSE Ok

validateSellerTransmissionError(sender, id) ==
    IF ~is_owner(sender) THEN Unauthorized
    ELSE IF id \notin DOMAIN exchanges THEN NotFound
    ELSE IF exchanges[id].state # exchange_states[1] THEN InvalidStateTransition
    ELSE Ok

validateSellerTransmission(sender, now, id) ==
    LET call == Call("validateSellerTransmission", sender, 0, id, <<>>)
        error == validateSellerTransmissionError(sender, id)
    IN  IF error # Ok
        THEN Fail(call, error)
        ELSE /\ exchanges' = [exchanges EXCEPT ![id].state = exchange_states[2],
                                               ![id].lastUpdate = now]
             /\ last' = call
             /\ UNCHANGED <<owner, slashing_rate, exchange_types, balance,
                            payouts, created>>

(***************************************************************************)
(* validateExchange (lines 126-138)                                        *)
(***************************************************************************)
\* mutant: the state of the record is not checked
validateExchangeError_NoStateCheck(sender, id) ==
    IF ~is_owner(sender) /\ id \notin DOMAIN exchanges THEN GetItemFailure
    ELSE IF ~(is_owner(sender) \/ exchanges[id].buyer = sender) THEN Unauthorized
    ELSE IF id \notin DOMAIN exchanges THEN NotFound
    ELSE Ok

\* mutant: the state is compared with the first state instead of the second
validateExchangeError_WrongState(sender, id) ==
    IF ~is_owner(sender) /\ id \notin DOMAIN exchanges THEN GetItemFailure
    ELSE IF ~(is_owner(sender) \/ exchanges[id].buyer = sender) THEN Unauthorized
    ELSE IF id \notin DOMAIN exchanges THEN NotFound
    ELSE IF exchanges[id].state # exchange_states[1] THEN InvalidStateTransition
    ELSE Ok

\* mutant: only the buyer may validate, the owner may not
validateExchangeError_BuyerOnly(sender, id) ==
    IF id \notin DOMAIN exchanges THEN GetItemFailure
    ELSE IF exchanges[id].buyer # sender THEN Unauthorized
    ELSE IF exchanges[id].state # exchange_states[2] THEN InvalidStateTransition
    ELSE Ok

\* line 129 reads exchanges[id].buyer before line 130 checks that id exists;
\* "|" evaluates its right operand only when the left one is false
validateExchangeError(sender, id) ==
    IF ~is_owner(sender) /\ id \notin DOMAIN exchanges THEN GetItemFailure
    ELSE IF ~(is_owner(sender) \/ exchanges[id].buyer = sender) THEN Unauthorized
    ELSE IF id \notin DOMAIN exchanges THEN NotFound
    ELSE IF exchanges[id].state # exchange_states[2] THEN InvalidStateTransition
    ELSE Ok

\* mutant: the seller is paid the price without the shipping
validateExchangeOperations_NoShipping(sender, id) ==
    <<Transfer(sender, exchanges[id].total_escrow.slashing),
      Transfer(owner, exchanges[id].total_escrow.commission),
      Transfer(exchanges[id].seller, exchanges[id].total_escrow.asked_price)>>

\* mutant: the commission is sent to the caller, like the slashing
validateExchangeOperations_CommissionToSender(sender, id) ==
    <<Transfer(sender, exchanges[id].total_escrow.slashing),
      Transfer(sender, exchanges[id].total_escrow.commission),
      Transfer(exchanges[id].seller,
               exchanges[id].total_escrow.asked_price
                 + exchanges[id].total_escrow.shipping)>>

\* mutant: the commission is computed again from the registry at payout
validateExchangeOperations_CurrentRate(sender, id) ==
    <<Transfer(sender, exchanges[id].total_escrow.slashing),
      Transfer(owner,
               calculate_percentage(exchanges[id].total_escrow.asked_price,
                                    exchange_types[exchanges[id].exchange_type])),
      Transfer(exchanges[id].seller,
               exchanges[id].total_escrow.asked_price
                 + exchanges[id].total_escrow.shipping)>>

\* mutant: what the buyer attached above the four amounts is sent back
validateExchangeOperations_RefundExcess(sender, id) ==
    <<Transfer(sender, exchanges[id].total_escrow.slashing),
      Transfer(owner, exchanges[id].total_escrow.commission),
      Transfer(exchanges[id].seller,
               exchanges[id].total_escrow.asked_price
                 + exchanges[id].total_escrow.shipping),
      Transfer(exchanges[id].buyer,
               exchanges[id].total_escrow.escrow
                 - exchanges[id].total_escrow.slashing
                 - exchanges[id].total_escrow.commission
                 - exchanges[id].total_escrow.asked_price
                 - exchanges[id].total_escrow.shipping)>>

validateExchangeOperations(sender, id) ==
    <<Transfer(sender, exchanges[id].total_escrow.slashing),
      Transfer(owner, exchanges[id].total_escrow.commission),
      Transfer(exchanges[id].seller,
               exchanges[id].total_escrow.asked_price
                 + exchanges[id].total_escrow.shipping)>>

validateExchange(sender, now, id) ==
    LET call == Call("validateExchange", sender, 0, id, <<>>)
        error == validateExchangeError(sender, id)
    IN  IF error # Ok
        THEN Fail(call, error)
        ELSE LET operations == validateExchangeOperations(sender, id)
             IN  \* the host refuses a transfer the balance does not cover
                 IF SumAmounts(operations) > balance
                 THEN Fail(call, BalanceTooLow)
                 ELSE /\ exchanges' =
                            [exchanges EXCEPT ![id].state = exchange_states[3],
                                              ![id].lastUpdate = now]
                      /\ balance' = balance - SumAmounts(operations)
                      /\ payouts' =
                            [payouts EXCEPT ![id] =
                                IF Len(@) < MaxPayouts THEN @ \o operations
                                ELSE @]
                      /\ last' = [call EXCEPT !.operations = operations]
                      /\ UNCHANGED <<owner, slashing_rate, exchange_types,
                                     created>>

(***************************************************************************)
(* Any address may call any entry point with any parameters; the calls of  *)
(* a specification are drawn from the sets it is given.                    *)
(***************************************************************************)
NextOver(ids, types, commissions, amounts, shippings, times) ==
    \/ \E sender \in Address, escrow_type \in types,
          commission \in commissions :
            updateExchangeType(sender, escrow_type, commission)
    \/ \E sender \in Address, new_owner \in Address :
            changeOwner(sender, new_owner)
    \/ \E sender \in Address, amount \in amounts, now \in times, id \in ids,
          seller \in Sellers, exchange_type \in types, price \in Prices,
          shipping \in shippings, domain_name \in DomainNames :
            addNewExchange(sender, amount, now, id, seller, exchange_type,
                           price, shipping, domain_name)
    \/ \E sender \in Address, now \in times, id \in ids :
            validateSellerTransmission(sender, now, id)
    \/ \E sender \in Address, now \in times, id \in ids :
            validateExchange(sender, now, id)

Next == NextOver(Ids, EscrowTypes, Commissions, Amounts, Shippings, Times)

Spec == Init /\ [][Next]_vars

(***************************************************************************)
(* Two exchanges side by side.  The calls are the same; to keep the state  *)
(* space in reach the type is registered at 5% only, every addNewExchange  *)
(* attaches the required total plus MaxOver, and the clock stands still.   *)
(***************************************************************************)
PairIds == {"3", "4"}
PairCommissions == {5}
PairAmounts ==
    {MaxPrice + (MaxPrice * 5) \div 100 + (MaxPrice * TestSlashingRate) \div 100
       + MaxShipping + MaxOver}
PairTimes == {1}

NextPair ==
    NextOver(PairIds, EscrowTypes, PairCommissions, PairAmounts, Shippings,
             PairTimes)

SpecPair == Init /\ [][NextPair]_vars

(***************************************************************************)
(* The registry with a percentage above 100: updateExchangeType takes any  *)
(* sp.TNat.  addNewExchange attaches what a record at that rate requires.  *)
(***************************************************************************)
WideCommissions == {5, 150}
WideAmounts ==
    {MaxPrice + (MaxPrice * 150) \div 100
       + (MaxPrice * TestSlashingRate) \div 100 + MaxShipping}

NextWide ==
    NextOver(Ids, EscrowTypes, WideCommissions, WideAmounts, Shippings, Times)

SpecWide == Init /\ [][NextWide]_vars

(***************************************************************************)
(* Two type names, so that a type can be missing from the registry while   *)
(* a record of the other type is in the store.                             *)
(***************************************************************************)
OrderTypes == {"TEST", "DOMAINNAME"}

NextOrder ==
    NextOver(Ids, OrderTypes, PairCommissions, Amounts, Shippings, PairTimes)

SpecOrder == Init /\ [][NextOrder]_vars

(***************************************************************************)
(* The owner of the moment keeps working: a successful attestation and a   *)
(* successful validation by the owner are weakly fair for every id.  All   *)
(* other calls, by anyone, stay possible and are under no obligation.      *)
(***************************************************************************)
ownerAttests(id) ==
    /\ \E now \in Times : validateSellerTransmission(owner, now, id)
    /\ last'.result = Ok

ownerValidates(id) ==
    /\ \E now \in Times : validateExchange(owner, now, id)
    /\ last'.result = Ok

SpecFair ==
    /\ Init
    /\ [][Next]_vars
    /\ \A id \in Ids : WF_vars(ownerAttests(id)) /\ WF_vars(ownerValidates(id))

(***************************************************************************)
(* What the properties say about a step: the call it ran is last', the     *)
(* storage it ran against is the unprimed one.                             *)
(***************************************************************************)
Ran(op) == last'.op = op
Succeeded == last'.result = Ok
Untouched == UNCHANGED <<owner, slashing_rate, exchange_types, exchanges,
                         balance, payouts, created>>
WAITING_FOR_TRANSFER == "WAITING_FOR_TRANSFER"
WAITING_FOR_VALIDATION == "WAITING_FOR_VALIDATION"
VALIDATED == "VALIDATED"
CANCELLED == "CANCELLED"

\* floor(price * percent / 100), written out independently of the contract
Share(price, percent) ==
    CHOOSE q \in 0 .. price * percent :
        100 * q <= price * percent /\ price * percent < 100 * (q + 1)

\* the sum of the values of a function with a finite domain
RECURSIVE SumOver(_, _)
SumOver(keys, f) ==
    IF keys = {} THEN 0
    ELSE LET k == CHOOSE x \in keys : TRUE
         IN  f[k] + SumOver(keys \ {k}, f)

SumOf(f) == SumOver(DOMAIN f, f)

\* the four amounts a settlement pays out, and what the record holds above them
Due(e) ==
    e.total_escrow.slashing + e.total_escrow.commission
      + e.total_escrow.asked_price + e.total_escrow.shipping
Excess(e) == e.total_escrow.escrow - Due(e)

\* C1: single settlement.  A validateExchange by the buyer or the coordinator
\* on a record that is already VALIDATED fails with InvalidStateTransition,
\* issues no transfer and changes nothing; over the whole life of a record at
\* most three transfers (one settlement) are issued for it, and they are
\* issued only together with the move to VALIDATED.
C1_SingleSettlement ==
    [][ /\ \A id \in DOMAIN exchanges :
              ( /\ exchanges[id].state = VALIDATED
                /\ Ran("validateExchange")
                /\ last'.id = id
                /\ last'.sender \in {owner, exchanges[id].buyer} )
              => ( /\ last'.result = InvalidStateTransition
                   /\ last'.operations = <<>>
                   /\ Untouched )
        /\ \A id \in DOMAIN payouts' :
              /\ Len(payouts'[id]) <= 3
              /\ Len(payouts'[id]) = 3 <=> exchanges'[id].state = VALIDATED
              /\ (id \in DOMAIN payouts /\ payouts'[id] # payouts[id])
                    => ( /\ payouts[id] = <<>>
                         /\ Succeeded /\ Ran("validateExchange")
                         /\ last'.id = id )
      ]_vars

\* C1 witness: the coordinator calls validateExchange on a settled record of
\* another buyer and is refused with InvalidStateTransition.
C1_Witness ==
    /\ last.op = "validateExchange"
    /\ last.id \in DOMAIN exchanges
    /\ exchanges[last.id].state = VALIDATED
    /\ last.sender = owner
    /\ last.sender # exchanges[last.id].buyer
    /\ last.result = InvalidStateTransition
    /\ Len(payouts[last.id]) = 3

\* C2: payout content and conservation.  A successful validateExchange(id) by
\* caller c issues exactly: slashing to c, commission to the current owner,
\* asked_price + shipping to the seller, in amounts as stored at creation; it
\* moves the record to VALIDATED and the three amounts sum to
\* slashing + commission + asked_price + shipping, which leaves the balance.
C2_Payout ==
    [][ (Ran("validateExchange") /\ Succeeded) =>
          LET id == last'.id
              e == exchanges[id]
              t == created[id].exchange.total_escrow
              ops == last'.operations
          IN  /\ id \in DOMAIN exchanges
              /\ ops = << [to |-> last'.sender, amount |-> t.slashing],
                          [to |-> owner, amount |-> t.commission],
                          [to |-> e.seller,
                           amount |-> t.asked_price + t.shipping] >>
              /\ e.seller = created[id].exchange.seller
              /\ owner' = owner
              /\ exchanges'[id].state = VALIDATED
              /\ ops[1].amount + ops[2].amount + ops[3].amount
                    = t.slashing + t.commission + t.asked_price + t.shipping
              /\ balance' = balance - (t.slashing + t.commission
                                         + t.asked_price + t.shipping)
              /\ payouts'[id] = payouts[id] \o ops
      ]_vars

\* C2 witness: the coordinator, who is neither buyer nor seller, settled a
\* record, so the slashing went to the coordinator.
C2_Witness ==
    /\ last.op = "validateExchange"
    /\ last.result = Ok
    /\ last.sender = owner
    /\ last.sender # exchanges[last.id].buyer
    /\ last.sender # exchanges[last.id].seller
    /\ Len(last.operations) = 3
    /\ last.operations[1].to = owner
    /\ last.operations[1].amount > 0

\* C3: creation threshold.  With a registered type and a fresh id,
\* addNewExchange succeeds iff the attached amount is at least
\* price + floor(price*commission%/100) + floor(price*slashing%/100) + shipping
\* and otherwise fails with InsufficientFunds; on success the record holds
\* escrow = amount, the two computed shares, shipping, asked_price = price,
\* buyer = caller, state = WAITING_FOR_TRANSFER.  The documented scenario
\* (5%, 5%, 13,500,000, 0) requires 14,850,000.
C3_CreationThreshold ==
    [][ ( /\ Ran("addNewExchange")
          /\ last'.params.exchange_type \in DOMAIN exchange_types
          /\ last'.id \notin DOMAIN exchanges ) =>
          LET q == last'.params
              commission == Share(q.price, exchange_types[q.exchange_type])
              slashing == Share(q.price, slashing_rate)
              required == q.price + commission + slashing + q.shipping
          IN  /\ Succeeded <=> last'.amount >= required
              /\ ~Succeeded => last'.result = InsufficientFunds
              /\ Succeeded =>
                    /\ last'.id \in DOMAIN exchanges'
                    /\ exchanges'[last'.id].total_escrow =
                          [escrow |-> last'.amount, slashing |-> slashing,
                           commission |-> commission, shipping |-> q.shipping,
                           asked_price |-> q.price]
                    /\ exchanges'[last'.id].buyer = last'.sender
                    /\ exchanges'[last'.id].seller = q.seller
                    /\ exchanges'[last'.id].state = WAITING_FOR_TRANSFER
                    /\ balance' = balance + last'.amount
              /\ 13500000 + calculate_percentage(13500000, 5)
                    + calculate_percentage(13500000, 5) + 0 = 14850000
      ]_vars

\* C3 witness: a record was created with exactly the required amount, where
\* the floor matters (the commission share is not a whole number of units).
C3_Witness ==
    /\ last.op = "addNewExchange"
    /\ last.result = Ok
    /\ LET t == exchanges[last.id].total_escrow
       IN  /\ t.escrow = t.asked_price + t.commission + t.slashing + t.shipping
           /\ t.escrow = last.amount
           /\ (t.asked_price * created[last.id].commission_rate) % 100 # 0

\* C4 as stated: addNewExchange with an id already in the store always
\* fails with DuplicateExchangeId, whatever the type, the price, the shipping
\* and the attached amount.
C4_AlwaysDuplicateExchangeId ==
    [][ (Ran("addNewExchange") /\ last'.id \in DOMAIN exchanges)
          => last'.result = DuplicateExchangeId ]_vars

\* C4 amended: addNewExchange with an id already in the store (in any state,
\* VALIDATED included) always fails and leaves the record as it was, whoever
\* calls; the failure is DuplicateExchangeId exactly when the type is
\* registered and the attached amount suffices, UnknownExchangeType when the
\* type is not registered and InsufficientFunds when the amount is too small,
\* because those two checks come first.
C4_DuplicateRejected ==
    [][ (Ran("addNewExchange") /\ last'.id \in DOMAIN exchanges) =>
          LET q == last'.params
              known == q.exchange_type \in DOMAIN exchange_types
              required ==
                  q.price + Share(q.price, exchange_types[q.exchange_type])
                    + Share(q.price, slashing_rate) + q.shipping
          IN  /\ ~Succeeded
              /\ Untouched
              /\ ~known => last'.result = UnknownExchangeType
              /\ (known /\ last'.amount < required)
                    => last'.result = InsufficientFunds
              /\ (known /\ last'.amount >= required)
                    => last'.result = DuplicateExchangeId
      ]_vars

\* C4 witness: another caller, attaching another amount, reuses the id of a
\* VALIDATED record and is refused with DuplicateExchangeId.
C4_Witness ==
    /\ last.op = "addNewExchange"
    /\ last.result = DuplicateExchangeId
    /\ last.id \in DOMAIN exchanges
    /\ exchanges[last.id].state = VALIDATED
    /\ exchanges[last.id].buyer # last.sender
    /\ exchanges[last.id].total_escrow.escrow # last.amount
    /\ exchanges[last.id] =
          [created[last.id].exchange EXCEPT !.state = VALIDATED,
                                            !.lastUpdate = exchanges[last.id].lastUpdate]

\* C5: authorization.  updateExchangeType and changeOwner succeed exactly
\* when the caller is the owner of the moment, validateSellerTransmission
\* only then; validateExchange on an existing id succeeds only for that owner
\* or the record's buyer; every other caller gets Unauthorized and nothing
\* changes.
C5_Authorization ==
    [][ /\ (Ran("updateExchangeType") \/ Ran("changeOwner"))
              => (Succeeded <=> last'.sender = owner)
        /\ ( \/ Ran("updateExchangeType") \/ Ran("changeOwner")
             \/ Ran("validateSellerTransmission") )
              => /\ Succeeded => last'.sender = owner
                 /\ last'.sender # owner
                       => (last'.result = Unauthorized /\ Untouched)
        /\ (Ran("validateExchange") /\ last'.id \in DOMAIN exchanges)
              => /\ Succeeded
                       => last'.sender \in {owner, exchanges[last'.id].buyer}
                 /\ last'.sender \notin {owner, exchanges[last'.id].buyer}
                       => (last'.result = Unauthorized /\ Untouched)
      ]_vars

\* C5 witness: the constructor's owner, replaced by changeOwner, calls
\* validateExchange on a record it is not the buyer of, and is refused.
C5_Witness ==
    /\ last.op = "validateExchange"
    /\ last.id \in DOMAIN exchanges
    /\ last.sender = "Owner"
    /\ owner # "Owner"
    /\ created[last.id].owner = "Owner"
    /\ exchanges[last.id].buyer # "Owner"
    /\ exchanges[last.id].state = WAITING_FOR_VALIDATION
    /\ last.result = Unauthorized

\* C6: no partial effect.  A call that fails leaves the owner, the registry,
\* every record and the balance as they were and issues no transfer; a record
\* becomes VALIDATED only in a successful validateExchange that issues all
\* three transfers, and such a call always makes the record VALIDATED.
C6_NoPartialEffect ==
    [][ /\ ~Succeeded => (Untouched /\ last'.operations = <<>>)
        /\ last'.operations # <<>>
              => /\ Ran("validateExchange") /\ Succeeded
                 /\ Len(last'.operations) = 3
                 /\ exchanges[last'.id].state # VALIDATED
                 /\ exchanges'[last'.id].state = VALIDATED
        /\ \A id \in DOMAIN exchanges :
              (exchanges[id].state # VALIDATED /\ exchanges'[id].state = VALIDATED)
                 => /\ Ran("validateExchange") /\ Succeeded /\ last'.id = id
                    /\ Len(last'.operations) = 3
        /\ balance' # balance => Succeeded
      ]_vars

\* C6 witness: a validateExchange on a record that is still
\* WAITING_FOR_TRANSFER failed; the record is as created, the balance still
\* holds its whole escrow and nothing has been paid out.
C6_Witness ==
    /\ last.op = "validateExchange"
    /\ last.result = InvalidStateTransition
    /\ last.id \in DOMAIN exchanges
    /\ last.sender = exchanges[last.id].buyer
    /\ exchanges[last.id] = created[last.id].exchange
    /\ balance = exchanges[last.id].total_escrow.escrow
    /\ payouts[last.id] = <<>>
    /\ last.operations = <<>>

\* C7 as stated: validateSellerTransmission succeeds only when the caller is
\* the owner and the record is WAITING_FOR_TRANSFER, and then moves it to
\* WAITING_FOR_VALIDATION; any validateSellerTransmission on a record that is
\* WAITING_FOR_VALIDATION or VALIDATED fails with InvalidStateTransition and
\* changes nothing.
C7_AnyCallInvalidStateTransition ==
    [][ Ran("validateSellerTransmission") =>
          LET id == last'.id
          IN  /\ Succeeded
                    => /\ last'.sender = owner
                       /\ id \in DOMAIN exchanges
                       /\ exchanges[id].state = WAITING_FOR_TRANSFER
                       /\ exchanges'[id].state = WAITING_FOR_VALIDATION
              /\ ( /\ id \in DOMAIN exchanges
                   /\ exchanges[id].state \in {WAITING_FOR_VALIDATION, VALIDATED} )
                    => (last'.result = InvalidStateTransition /\ Untouched)
      ]_vars

\* C7 amended: validateSellerTransmission succeeds exactly when the caller is
\* the owner and the record is WAITING_FOR_TRANSFER, and then moves it to
\* WAITING_FOR_VALIDATION; on a record that is WAITING_FOR_VALIDATION or
\* VALIDATED it always fails and changes nothing, with InvalidStateTransition
\* when the caller is the owner of the moment and with Unauthorized otherwise.
C7_AttestOnce ==
    [][ Ran("validateSellerTransmission") =>
          LET id == last'.id
          IN  /\ Succeeded
                    => /\ last'.sender = owner
                       /\ id \in DOMAIN exchanges
                       /\ exchanges[id].state = WAITING_FOR_TRANSFER
                       /\ exchanges'[id].state = WAITING_FOR_VALIDATION
              /\ ( /\ last'.sender = owner
                   /\ id \in DOMAIN exchanges
                   /\ exchanges[id].state = WAITING_FOR_TRANSFER )
                    => Succeeded
              /\ ( /\ id \in DOMAIN exchanges
                   /\ exchanges[id].state \in {WAITING_FOR_VALIDATION, VALIDATED} )
                    => /\ ~Succeeded
                       /\ Untouched
                       /\ last'.sender = owner
                             => last'.result = InvalidStateTransition
                       /\ last'.sender # owner
                             => last'.result = Unauthorized
      ]_vars

\* C7 witness: the owner replays validateSellerTransmission on a record that
\* is already WAITING_FOR_VALIDATION and is refused.
C7_Witness ==
    /\ last.op = "validateSellerTransmission"
    /\ last.sender = owner
    /\ last.id \in DOMAIN exchanges
    /\ exchanges[last.id].state = WAITING_FOR_VALIDATION
    /\ last.result = InvalidStateTransition

Rank(state) ==
    CASE state = WAITING_FOR_TRANSFER -> 1
      [] state = WAITING_FOR_VALIDATION -> 2
      [] state = VALIDATED -> 3
      [] OTHER -> 0

\* C8: lifecycle monotonicity.  A record enters the store in
\* WAITING_FOR_TRANSFER and never leaves it; in every step its state stays
\* or advances by one along WAITING_FOR_TRANSFER, WAITING_FOR_VALIDATION,
\* VALIDATED; no record is ever CANCELLED.
C8_Lifecycle ==
    [][ /\ \A id \in DOMAIN exchanges :
              /\ id \in DOMAIN exchanges'
              /\ \/ exchanges'[id].state = exchanges[id].state
                 \/ Rank(exchanges'[id].state) = Rank(exchanges[id].state) + 1
              /\ exchanges[id].state = VALIDATED
                    => exchanges'[id].state = VALIDATED
        /\ \A id \in (DOMAIN exchanges') \ (DOMAIN exchanges) :
              exchanges'[id].state = WAITING_FOR_TRANSFER
        /\ \A id \in DOMAIN exchanges' :
              /\ Rank(exchanges'[id].state) \in 1 .. 3
              /\ exchanges'[id].state # CANCELLED
      ]_vars

\* C8 witness: a record has gone through the whole chain.
C8_Witness ==
    \E id \in DOMAIN exchanges :
        /\ exchanges[id].state = VALIDATED
        /\ created[id].exchange.state = WAITING_FOR_TRANSFER

\* C9: the commission goes to the owner at validation time.  A successful
\* validateExchange sends the record's commission to the owner of that moment
\* and sends nothing to any address that is neither that owner, the caller nor
\* the seller - in particular nothing to the owner under which the record was
\* created when it has been replaced since.
C9_CommissionAtPayout ==
    [][ (Ran("validateExchange") /\ Succeeded) =>
          LET id == last'.id
              ops == last'.operations
          IN  /\ owner' = owner
              /\ \E i \in 1 .. Len(ops) :
                    ops[i] = [to |-> owner,
                              amount |-> exchanges[id].total_escrow.commission]
              /\ \A i \in 1 .. Len(ops) :
                    ops[i].to \in {owner, last'.sender, exchanges[id].seller}
              /\ created[id].owner
                    \notin {owner, last'.sender, exchanges[id].seller}
                    => \A i \in 1 .. Len(ops) : ops[i].to # created[id].owner
              /\ ops[2].to = owner
      ]_vars

\* C9 witness: the owner was replaced between creation and validation, the
\* buyer validated, and the former owner (neither caller nor seller) got
\* nothing while the new owner got the commission.
C9_Witness ==
    /\ last.op = "validateExchange"
    /\ last.result = Ok
    /\ created[last.id].owner # owner
    /\ created[last.id].owner \notin {last.sender, exchanges[last.id].seller}
    /\ last.sender # owner
    /\ last.operations[2].to = owner
    /\ last.operations[2].amount > 0

\* C10: committed fees are fixed at creation.  No updateExchangeType changes
\* any record; every record's commission and slashing stay the shares of the
\* price at the rates in force when it was created, and validateExchange pays
\* out exactly those amounts, whatever the registry says by then.
C10_FeesFixedAtCreation ==
    [][ /\ Ran("updateExchangeType") => exchanges' = exchanges
        /\ \A id \in DOMAIN exchanges' :
              LET t == exchanges'[id].total_escrow
              IN  /\ t.commission
                        = Share(t.asked_price, created'[id].commission_rate)
                  /\ t.slashing
                        = Share(t.asked_price, created'[id].slashing_rate)
        /\ (Ran("validateExchange") /\ Succeeded) =>
              LET t == exchanges[last'.id].total_escrow
                  c == created[last'.id]
                  ops == last'.operations
              IN  /\ ops[1].amount = Share(t.asked_price, c.slashing_rate)
                  /\ ops[2].amount = Share(t.asked_price, c.commission_rate)
                  /\ ops[3].amount = t.asked_price + t.shipping
      ]_vars

\* C10 witness: a record was settled after its own type had been overwritten
\* with a percentage that gives a different commission.
C10_Witness ==
    /\ last.op = "validateExchange"
    /\ last.result = Ok
    /\ LET e == exchanges[last.id]
       IN  /\ exchange_types[e.exchange_type] # created[last.id].commission_rate
           /\ Share(e.total_escrow.asked_price, exchange_types[e.exchange_type])
                 # last.operations[2].amount

\* C11: records are permanent and their identity fields immutable.  An id in
\* the store stays in the store; its record keeps buyer, seller,
\* exchange_type, domain_name and all five total_escrow amounts of the
\* addNewExchange that inserted it; only state and lastUpdate change, and
\* only in a successful validateSellerTransmission or validateExchange on
\* that id.
C11_RecordsPermanent ==
    [][ \A id \in DOMAIN exchanges :
          /\ id \in DOMAIN exchanges'
          /\ exchanges'[id] =
                [exchanges[id] EXCEPT !.state = exchanges'[id].state,
                                      !.lastUpdate = exchanges'[id].lastUpdate]
          /\ created'[id] = created[id]
          /\ exchanges'[id] =
                [created[id].exchange EXCEPT
                    !.state = exchanges'[id].state,
                    !.lastUpdate = exchanges'[id].lastUpdate]
          /\ exchanges'[id] # exchanges[id]
                => /\ Succeeded
                   /\ last'.id = id
                   /\ Ran("validateSellerTransmission") \/ Ran("validateExchange")
      ]_vars

\* C11 witness: after a record was settled, another caller tried to create
\* the same id with another amount; the record still has the first values.
C11_Witness ==
    /\ last.op = "addNewExchange"
    /\ last.result # Ok
    /\ last.id \in DOMAIN exchanges
    /\ LET e == exchanges[last.id]
           c == created[last.id].exchange
       IN  /\ e.state = VALIDATED
           /\ last.sender # e.buyer
           /\ last.amount # e.total_escrow.escrow
           /\ e.buyer = c.buyer /\ e.seller = c.seller
           /\ e.exchange_type = c.exchange_type
           /\ e.domain_name = c.domain_name
           /\ e.total_escrow = c.total_escrow

\* C12: for an id that is not in the store, validateSellerTransmission by the
\* owner fails with NotFound, and validateExchange fails with NotFound for
\* every caller, the owner and everyone else alike; neither changes anything
\* or issues a transfer.
C12_NotFoundOnMissingId ==
    [][ (last'.id \notin DOMAIN exchanges) =>
          /\ (Ran("validateSellerTransmission") /\ last'.sender = owner)
                => (last'.result = NotFound /\ Untouched)
          /\ Ran("validateExchange")
                => /\ last'.result = NotFound
                   /\ last'.operations = <<>>
                   /\ Untouched
      ]_vars

\* C13: every commission percentage stored in the registry is between 0 and
\* 100 inclusive.
C13_PercentagesInRange ==
    \A t \in DOMAIN exchange_types : exchange_types[t] \in 0 .. 100

C15_CheckOrder ==
    [][ Ran("addNewExchange") =>
          LET q == last'.params
              known == q.exchange_type \in DOMAIN exchange_types
              required ==
                  q.price + Share(q.price, exchange_types[q.exchange_type])
                    + Share(q.price, slashing_rate) + q.shipping
              taken == last'.id \in DOMAIN exchanges
          IN  /\ ~known => last'.result = UnknownExchangeType
              /\ (known /\ last'.amount < required)
                    => last'.result = InsufficientFunds
              /\ (known /\ last'.amount >= required /\ taken)
                    => last'.result = DuplicateExchangeId
              /\ (known /\ last'.amount >= required /\ ~taken) => Succeeded
              /\ last'.result = DuplicateExchangeId
                    => (known /\ last'.amount >= required /\ taken)
              /\ last'.result \in {Ok, UnknownExchangeType, InsufficientFunds,
                                   DuplicateExchangeId}
      ]_vars

\* C15 witness: a call with a registered type, too small an amount and an id
\* that exists was refused with InsufficientFunds.
C15_Witness ==
    /\ last.op = "addNewExchange"
    /\ last.id \in DOMAIN exchanges
    /\ last.params.exchange_type \in DOMAIN exchange_types
    /\ last.amount <
          last.params.price
            + Share(last.params.price, exchange_types[last.params.exchange_type])
            + Share(last.params.price, slashing_rate) + last.params.shipping
    /\ last.result = InsufficientFunds


\* C16: no payout without attestation.  A record enters the store only in a
\* successful addNewExchange on its id, in WAITING_FOR_TRANSFER and with no
\* transfer issued; it leaves WAITING_FOR_TRANSFER only for
\* WAITING_FOR_VALIDATION, in a successful validateSellerTransmission on its
\* id whose caller is the owner of that moment; transfers are issued for it
\* only in a successful validateExchange on its id while it is in
\* WAITING_FOR_VALIDATION.  Hence every transfer for an id comes after the
\* owner's attestation, which comes after the creation, and a call whose
\* caller is not the owner moves no record out of WAITING_FOR_TRANSFER and
\* issues no transfer for such a record.
C16_NoPayoutWithoutAttestation ==
    [][ /\ \A id \in DOMAIN exchanges' :
              IF id \notin DOMAIN exchanges
              THEN /\ Ran("addNewExchange") /\ Succeeded /\ last'.id = id
                   /\ exchanges'[id].state = WAITING_FOR_TRANSFER
                   /\ payouts'[id] = <<>>
                   /\ last'.operations = <<>>
              ELSE /\ ( /\ exchanges[id].state = WAITING_FOR_TRANSFER
                        /\ exchanges'[id].state # WAITING_FOR_TRANSFER )
                        => /\ exchanges'[id].state = WAITING_FOR_VALIDATION
                           /\ Ran("validateSellerTransmission") /\ Succeeded
                           /\ last'.id = id
                           /\ last'.sender = owner
                           /\ last'.operations = <<>>
                           /\ payouts'[id] = payouts[id]
                   /\ payouts'[id] # payouts[id]
                        => /\ exchanges[id].state = WAITING_FOR_VALIDATION
                           /\ Ran("validateExchange") /\ Succeeded
                           /\ last'.id = id
                           /\ payouts'[id] = payouts[id] \o last'.operations
                   /\ exchanges'[id].state = WAITING_FOR_TRANSFER
                        => payouts'[id] = <<>>
        /\ last'.operations # <<>>
              => /\ Ran("validateExchange") /\ Succeeded
                 /\ last'.id \in DOMAIN exchanges
                 /\ exchanges[last'.id].state = WAITING_FOR_VALIDATION
        /\ last'.sender # owner
              => \A id \in DOMAIN exchanges :
                    exchanges[id].state = WAITING_FOR_TRANSFER
                        => /\ exchanges'[id] = exchanges[id]
                           /\ payouts'[id] = <<>>
                           /\ last'.id = id => last'.operations = <<>>
      ]_vars

\* C16 witness: the buyer, who is not the owner, settled the record and the
\* three transfers were issued; the record was attested before.
C16_Witness ==
    /\ last.op = "validateExchange"
    /\ last.result = Ok
    /\ last.sender # owner
    /\ last.sender = exchanges[last.id].buyer
    /\ exchanges[last.id].state = VALIDATED
    /\ Len(payouts[last.id]) = 3
    /\ payouts[last.id] = last.operations


\* C17: no stuck funds.  With the owner of the moment weakly fair in
\* attesting and validating, every record in the store eventually is
\* VALIDATED with its three transfers issued: the slashing, the commission
\* and the asked price plus the shipping.
C17_NoStuckFunds ==
    \A id \in Ids :
        (id \in DOMAIN exchanges)
            ~> ( /\ id \in DOMAIN exchanges
                 /\ exchanges[id].state = VALIDATED
                 /\ Len(payouts[id]) = 3
                 /\ LET t == exchanges[id].total_escrow
                    IN  /\ payouts[id][1].amount = t.slashing
                        /\ payouts[id][2].amount = t.commission
                        /\ payouts[id][3].amount = t.asked_price + t.shipping )

\* C17 witness: a record of a buyer who is not the owner was settled by an
\* owner who is not the one the contract started with.
C17_Witness ==
    /\ last.op = "validateExchange"
    /\ last.result = Ok
    /\ last.sender = owner
    /\ owner # "Owner"
    /\ exchanges[last.id].buyer # owner
    /\ exchanges[last.id].state = VALIDATED
    /\ Len(payouts[last.id]) = 3
    /\ SumAmounts(payouts[last.id]) > 0


\* C18: overpayment is retained.  A successful addNewExchange records the
\* full attached amount as escrow and adds it to the balance; a successful
\* validateExchange transfers exactly slashing, commission and asked price
\* plus shipping, nothing to the buyer as such, and takes exactly their sum
\* from the balance; no transfer is ever issued for a VALIDATED record, no
\* other call moves the balance, and the balance always holds the whole
\* escrow of the pending records plus the excess of every VALIDATED one.
C18_OverpaymentRetained ==
    [][ /\ (Ran("addNewExchange") /\ Succeeded)
              => /\ exchanges'[last'.id].total_escrow.escrow = last'.amount
                 /\ balance' = balance + last'.amount
                 /\ Excess(exchanges'[last'.id]) >= 0
        /\ (Ran("validateExchange") /\ Succeeded)
              => LET e == exchanges[last'.id]
                 IN  /\ last'.operations =
                           <<Transfer(last'.sender, e.total_escrow.slashing),
                             Transfer(owner, e.total_escrow.commission),
                             Transfer(e.seller, e.total_escrow.asked_price
                                                  + e.total_escrow.shipping)>>
                     /\ balance' = balance - Due(e)
                     /\ exchanges'[last'.id].total_escrow.escrow
                           = e.total_escrow.escrow
        /\ ~(Succeeded /\ (Ran("addNewExchange") \/ Ran("validateExchange")))
              => (balance' = balance /\ last'.operations = <<>>)
        /\ \A id \in DOMAIN exchanges :
              exchanges[id].state = VALIDATED
                  => /\ payouts'[id] = payouts[id]
                     /\ exchanges'[id] = exchanges[id]
                     /\ last'.id = id => last'.operations = <<>>
        /\ balance' =
              SumOf([id \in DOMAIN exchanges' |->
                        IF exchanges'[id].state = VALIDATED
                        THEN Excess(exchanges'[id])
                        ELSE exchanges'[id].total_escrow.escrow])
      ]_vars

\* C18 witness: both records were created with more than required and are
\* VALIDATED; the buyer of one asks again and is refused; the balance is the
\* sum of the two excesses.
C18_Witness ==
    /\ last.op = "validateExchange"
    /\ last.result = InvalidStateTransition
    /\ DOMAIN exchanges = PairIds
    /\ last.sender = exchanges[last.id].buyer
    /\ \A id \in PairIds :
          /\ exchanges[id].state = VALIDATED
          /\ Excess(exchanges[id]) > 0
          /\ Len(payouts[id]) = 3
    /\ balance = SumOf([id \in PairIds |-> Excess(exchanges[id])])
    /\ balance > 0


\* C19: solvency.  From a balance of zero, in every reachable state the
\* balance is the sum of the escrow of all records minus the sum of
\* slashing + commission + asked price + shipping of the VALIDATED ones, so
\* it is at least the sum of those four amounts over the records not yet
\* VALIDATED, and no validateExchange that passed its checks was refused for
\* lack of funds.
C19_Solvency ==
    /\ balance =
          SumOf([id \in DOMAIN exchanges |-> exchanges[id].total_escrow.escrow])
            - SumOf([id \in DOMAIN exchanges |->
                        IF exchanges[id].state = VALIDATED
                        THEN Due(exchanges[id]) ELSE 0])
    /\ balance >=
          SumOf([id \in DOMAIN exchanges |->
                    IF exchanges[id].state # VALIDATED
                    THEN Due(exchanges[id]) ELSE 0])
    /\ balance >= 0
    /\ last.result # BalanceTooLow
    /\ \A id \in DOMAIN exchanges :
          exchanges[id].state = VALIDATED
              <=> SumAmounts(payouts[id]) = Due(exchanges[id])

\* C19 witness: of two records awaiting validation the one created second
\* was settled first, and the balance still covers the other.
C19_Witness ==
    /\ last.op = "validateExchange"
    /\ last.result = Ok
    /\ last.id = "4"
    /\ DOMAIN exchanges = PairIds
    /\ exchanges["4"].state = VALIDATED
    /\ exchanges["3"].state = WAITING_FOR_VALIDATION
    /\ balance >= Due(exchanges["3"])
    /\ balance < exchanges["3"].total_escrow.escrow
                   + exchanges["4"].total_escrow.escrow


\* C20: frame and independence.  A successful addNewExchange,
\* validateSellerTransmission or validateExchange on id i leaves every other
\* record and its transfers, the registry, the slashing rate and the owner
\* as they were; a successful updateExchangeType changes only the registry
\* entry it names and a successful changeOwner only the owner, neither
\* touching a record or the balance.  The outcome of a call on id i is
\* determined by the caller, the call's inputs, the owner, the registry, the
\* slashing rate and the record i alone, and its effect on the balance by the
\* attached amount or the amounts of record i, which is why calls on
\* distinct ids commute.
C20_Frame ==
    [][ LET i == last'.id
            onId == Ran("addNewExchange") \/ Ran("validateSellerTransmission")
                      \/ Ran("validateExchange")
            here == i \in DOMAIN exchanges
        IN  /\ (onId /\ Succeeded)
                  => /\ DOMAIN exchanges' = DOMAIN exchanges \cup {i}
                     /\ \A j \in DOMAIN exchanges \ {i} :
                           /\ exchanges'[j] = exchanges[j]
                           /\ payouts'[j] = payouts[j]
                           /\ created'[j] = created[j]
                     /\ UNCHANGED <<exchange_types, slashing_rate, owner>>
            /\ (Ran("updateExchangeType") /\ Succeeded)
                  => /\ DOMAIN exchange_types'
                           = DOMAIN exchange_types \cup {last'.params.escrow_type}
                     /\ exchange_types'[last'.params.escrow_type]
                           = last'.params.commission
                     /\ \A t \in DOMAIN exchange_types \ {last'.params.escrow_type} :
                           exchange_types'[t] = exchange_types[t]
                     /\ UNCHANGED <<owner, slashing_rate, exchanges, balance,
                                    payouts, created>>
            /\ (Ran("changeOwner") /\ Succeeded)
                  => /\ owner' = last'.params.new_owner
                     /\ UNCHANGED <<exchange_types, slashing_rate, exchanges,
                                    balance, payouts, created>>
            /\ Ran("addNewExchange")
                  => LET q == last'.params
                         known == q.exchange_type \in DOMAIN exchange_types
                         required ==
                             q.price
                               + Share(q.price, exchange_types[q.exchange_type])
                               + Share(q.price, slashing_rate) + q.shipping
                     IN  /\ Succeeded
                            <=> (known /\ last'.amount >= required /\ ~here)
                         /\ Succeeded => balance' = balance + last'.amount
            /\ Ran("validateSellerTransmission")
                  => /\ Succeeded
                        <=> ( /\ last'.sender = owner
                              /\ here
                              /\ exchanges[i].state = WAITING_FOR_TRANSFER )
                     /\ balance' = balance
            /\ Ran("validateExchange")
                  => /\ Succeeded
                        <=> ( /\ here
                              /\ last'.sender \in {owner, exchanges[i].buyer}
                              /\ exchanges[i].state = WAITING_FOR_VALIDATION )
                     /\ Succeeded => balance' = balance - Due(exchanges[i])
            /\ ~Succeeded => Untouched
      ]_vars

\* C20 witness: one record was just settled while the other, of another
\* buyer, still waits for the seller's transmission, untouched since it was
\* created; the registry holds the three initial types next to the new one.
C20_Witness ==
    /\ last.op = "validateExchange"
    /\ last.result = Ok
    /\ DOMAIN exchanges = PairIds
    /\ \E j \in PairIds \ {last.id} :
          /\ exchanges[j].state = WAITING_FOR_TRANSFER
          /\ exchanges[j] = created[j].exchange
          /\ exchanges[j].buyer # exchanges[last.id].buyer
          /\ payouts[j] = <<>>
    /\ DOMAIN exchange_types = DOMAIN InitialExchangeTypes \cup EscrowTypes
    /\ \A t \in DOMAIN InitialExchangeTypes :
          exchange_types[t] = InitialExchangeTypes[t]

====
